---------------------------- MODULE Spec2Model ----------------------------
(***************************************************************************)
(* Model of index.js: an OpenAI-style /v1/chat/completions endpoint that   *)
(* forwards image generation requests to Vertex streamGenerateContent.     *)
(*                                                                         *)
(* JavaScript strings that the code inspects character by character (the   *)
(* model name, data URLs, error messages) are sequences of one-character   *)
(* strings.  JSON values are records tagged by a field t.  A function that *)
(* can throw returns Return(v) or Throw(message).                          *)
(***************************************************************************)
EXTENDS Integers, Sequences, FiniteSets, TLC

VARIABLES
    phase,          \* pure-function specifications: "call" before, "ret" after
    arg,            \* pure-function specifications: the argument
    ret,            \* pure-function specifications: the result
    pc,             \* request handler: position in app.post's async callback
    req,            \* request handler: req.body
    status,         \* callVertexApi: response.status, 0 before fetch resolves
    fullResponse,   \* callVertexApi: text accumulated from reader.read()
    responses,      \* request handler: what has been sent through res
    trace           \* request handler: calls made so far, in order

pvars == <<phase, arg, ret>>
hvars == <<pc, req, status, fullResponse, responses, trace>>
vars == <<phase, arg, ret, pc, req, status, fullResponse, responses, trace>>

---------------------------------------------------------------------------
(* Bounds of the model *)

\* longest suffix appended to a model-name prefix
MaxSuffix == 3

---------------------------------------------------------------------------
(* JavaScript values and strings *)

Return(v) == [ok |-> TRUE, value |-> v]
Throw(msg) == [ok |-> FALSE, message |-> msg]

\* all sequences over S of length at most n
SeqsUpTo(S, n) == UNION {[1..k -> S] : k \in 0..n}

Undefined == [t |-> "undefined", s |-> <<>>]
Null == [t |-> "null", s |-> <<>>]
Str(s) == [t |-> "string", s |-> s]

UpperChars == <<"A", "B", "C", "D", "E", "F", "G", "H", "I", "J", "K", "L", "M", "N", "O", "P",
                "Q", "R", "S", "T", "U", "V", "W", "X", "Y", "Z">>
LowerChars == <<"a", "b", "c", "d", "e", "f", "g", "h", "i", "j", "k", "l", "m", "n", "o", "p",
                "q", "r", "s", "t", "u", "v", "w", "x", "y", "z">>
Digits == <<"0", "1", "2", "3", "4", "5", "6", "7", "8", "9">>

\* String.prototype.toLowerCase, on the ASCII letters
toLowerChar(c) ==
    IF \E i \in 1..Len(UpperChars) : UpperChars[i] = c
    THEN LowerChars[CHOOSE i \in 1..Len(UpperChars) : UpperChars[i] = c]
    ELSE c

toLowerCase(s) == [i \in 1..Len(s) |-> toLowerChar(s[i])]

\* String.prototype.slice(m - 1, n): characters m..n of s, as far as they exist
Slice(s, m, n) ==
    LET last == IF n < Len(s) THEN n ELSE Len(s)
    IN  [i \in 1..(last - m + 1) |-> s[m + i - 1]]

\* String.prototype.startsWith
startsWith(s, p) == Slice(s, 1, Len(p)) = p

\* String.prototype.includes
includes(s, p) == \E i \in 1..(Len(s) - Len(p) + 1) : Slice(s, i, i + Len(p) - 1) = p

\* !v for undefined, null and strings
Falsy(v) == v.t \in {"undefined", "null"} \/ (v.t = "string" /\ v.s = <<>>)

---------------------------------------------------------------------------
(* parseImageModel, index.js 93-108 *)

BaseModel == <<"g", "e", "m", "i", "n", "i", "-", "3", "-", "p", "r", "o", "-", "i", "m", "a", "g",
               "e", "-", "p", "r", "e", "v", "i", "e", "w">>
ModelRequiredMessage == <<"m", "o", "d", "e", "l", " ", "i", "s", " ", "r", "e", "q", "u", "i",
                          "r", "e", "d", ",", " ", "e", ".", "g", ".", " ", "\"", "g", "e", "m",
                          "i", "n", "i", "-", "3", "-", "p", "r", "o", "-", "i", "m", "a", "g",
                          "e", "-", "p", "r", "e", "v", "i", "e", "w", "-", "2", "k", "\"">>
UnsupportedModelMessage ==
    <<"u", "n", "s", "u", "p", "p", "o", "r", "t", "e", "d", " ", "m", "o", "d", "e", "l", ",",
      " ", "o", "n", "l", "y", " ", "g", "e", "m", "i", "n", "i", "-", "3", "-", "p", "r", "o",
      "-", "i", "m", "a", "g", "e", "-", "p", "r", "e", "v", "i", "e", "w", "[", "-", "2", "k",
      "|", "-", "4", "k", "]", " ", "i", "s", " ", "a", "l", "l", "o", "w", "e", "d">>

\* a slip: the prefix test runs on the string as given
parseImageModel_CaseSensitive(model) ==
    IF Falsy(model) THEN Throw(ModelRequiredMessage)
    ELSE IF ~startsWith(model.s, BaseModel) THEN Throw(UnsupportedModelMessage)
    ELSE LET lower == toLowerCase(model.s)
         IN  Return([size |-> IF includes(lower, <<"4", "k">>) THEN "4K" ELSE "2K"])

parseImageModel(model) ==
    IF Falsy(model) THEN Throw(ModelRequiredMessage)
    ELSE LET lower == toLowerCase(model.s)
         IN  IF ~startsWith(lower, BaseModel) THEN Throw(UnsupportedModelMessage)
             ELSE Return([size |-> IF includes(lower, <<"4", "k">>) THEN "4K"
                                   ELSE IF includes(lower, <<"2", "k">>) THEN "2K"
                                   ELSE "2K"])

---------------------------------------------------------------------------
(* Specification of parseImageModel alone *)

ModelPrefixes ==
    { <<>>,
      BaseModel,
      <<"G", "E", "M", "I", "N", "I", "-", "3", "-", "P", "R", "O", "-", "I", "M", "A", "G", "E",
        "-", "P", "R", "E", "V", "I", "E", "W">>,
      <<"G", "e", "m", "i", "n", "i", "-", "3", "-", "P", "r", "o", "-", "I", "m", "a", "g", "e",
        "-", "P", "r", "e", "v", "i", "e", "w">>,
      <<"g", "e", "m", "i", "n", "i", "-", "3", "-", "p", "r", "o", "-", "i", "m", "a", "g", "e",
        "-", "p", "r", "e", "v", "i", "e">>,
      <<"g", "e", "m", "i", "n", "i", "-", "3", "-", "p", "r", "o", "-", "i", "m", "a", "g", "e",
        "-", "4", "k">>,
      <<"x", "g", "e", "m", "i", "n", "i", "-", "3", "-", "p", "r", "o", "-", "i", "m", "a", "g",
        "e", "-", "p", "r", "e", "v", "i", "e", "w">> }

SuffixChars == {"-", "2", "4", "k", "K"}

ModelInputs ==
    {Undefined, Null} \cup
    {Str(p \o s) : p \in ModelPrefixes, s \in SeqsUpTo(SuffixChars, MaxSuffix)}

HandlerIdle ==
    /\ pc = "off"
    /\ req = Undefined
    /\ status = 0
    /\ fullResponse = <<>>
    /\ responses = <<>>
    /\ trace = <<>>

InitModel ==
    /\ phase = "call"
    /\ arg \in ModelInputs
    /\ ret = Undefined
    /\ HandlerIdle

CallParseImageModel ==
    /\ phase = "call"
    /\ phase' = "ret"
    /\ ret' = parseImageModel(arg)
    /\ UNCHANGED <<arg, hvars>>

NextModel == CallParseImageModel

SpecModel == InitModel /\ [][NextModel]_vars

---------------------------------------------------------------------------
(* C3 *)

\* a and b are the same letter up to case, or the same character
SameLetter(a, b) ==
    \/ a = b
    \/ \E i \in 1..Len(UpperChars) :
          {a, b} = {UpperChars[i], LowerChars[i]}

PrefixMatchesBase(s) ==
    /\ Len(s) >= Len(BaseModel)
    /\ \A i \in 1..Len(BaseModel) : SameLetter(s[i], BaseModel[i])

Has4kAfterPrefix(s) ==
    \E i \in (Len(BaseModel) + 1)..(Len(s) - 1) : s[i] = "4" /\ s[i + 1] \in {"k", "K"}

---------------------------------------------------------------------------
(* parseDataUrl, index.js 42-47 *)

\* the character class [a-zA-Z0-9\/+]
MimeChar(c) ==
    \/ \E i \in 1..Len(UpperChars) : c \in {UpperChars[i], LowerChars[i]}
    \/ \E i \in 1..Len(Digits) : c = Digits[i]
    \/ c \in {"/", "+"}

\* characters that . does not match
LineTerminators == {"\n", "\r"}

NoMatch == [match |-> FALSE, mimeType |-> <<>>, data |-> <<>>]

\* length of the longest run of MimeChar in s starting at position from
RECURSIVE mimeRun(_, _)
mimeRun(s, from) ==
    IF from <= Len(s) /\ MimeChar(s[from]) THEN 1 + mimeRun(s, from + 1) ELSE 0

\* dataUrl.match(/^data:([a-zA-Z0-9\/+]+);base64,(.+)$/): group 1 is greedy
\* and ";" is outside its class, so it can only be the whole run after
\* "data:"; group 2 is the non-empty rest, free of line terminators
parseDataUrl(dataUrl) ==
    LET scheme == <<"d", "a", "t", "a", ":">>
        marker == <<";", "b", "a", "s", "e", "6", "4", ",">>
        n == mimeRun(dataUrl, Len(scheme) + 1)
        mimeEnd == Len(scheme) + n
        rest == Slice(dataUrl, mimeEnd + Len(marker) + 1, Len(dataUrl))
    IN  IF /\ startsWith(dataUrl, scheme)
           /\ n >= 1
           /\ Len(dataUrl) >= mimeEnd + Len(marker)
           /\ Slice(dataUrl, mimeEnd + 1, mimeEnd + Len(marker)) = marker
           /\ Len(rest) >= 1
           /\ \A i \in 1..Len(rest) : rest[i] \notin LineTerminators
        THEN [match |-> TRUE,
              mimeType |-> Slice(dataUrl, Len(scheme) + 1, mimeEnd),
              data |-> rest]
        ELSE NoMatch

---------------------------------------------------------------------------
(* buildVertexParts, index.js 50-67 *)

\* Properties the code only compares or tests for truth (type, text, role)
\* are plain strings; Missing stands for a property that is not there.
Missing == "(missing)"
Truthy(v) == v # Missing /\ v # ""

\* an element of a content array: JSON null or an object
NullItem == [t |-> "null", type |-> Missing, text |-> Missing,
             image_url |-> [t |-> "undefined", url |-> Undefined]]
Item(type, text, image_url) ==
    [t |-> "object", type |-> type, text |-> text, image_url |-> image_url]
NoImageUrl == [t |-> "undefined", url |-> Undefined]
ImageUrl(url) == [t |-> "object", url |-> url]

\* message content: a string, an array of items, or something else
StringContent(text) == [t |-> "string", text |-> text, items |-> <<>>]
ArrayContent(items) == [t |-> "array", text |-> Missing, items |-> items]
OtherContent(t) == [t |-> t, text |-> Missing, items |-> <<>>]

TextPart(text) == [text |-> text]
InlineDataPart(mimeType, data) == [inlineData |-> [mimeType |-> mimeType, data |-> data]]

\* what V8 reports for item.type when item is null
NullItemMessage == <<"C", "a", "n", "n", "o", "t", " ", "r", "e", "a", "d", " ", "p", "r", "o",
                     "p", "e", "r", "t", "i", "e", "s", " ", "o", "f", " ", "n", "u", "l", "l",
                     " ", "(", "r", "e", "a", "d", "i", "n", "g", " ", "'", "t", "y", "p", "e",
                     "'", ")">>

\* the for loop of lines 55-64, from item i on, with the parts pushed so far
RECURSIVE pushParts(_, _, _)
pushParts(items, i, parts) ==
    IF i > Len(items) THEN Return(parts)
    ELSE LET item == items[i]
         IN  IF item.t = "null" THEN Throw(NullItemMessage)
             ELSE IF item.type = "text" /\ Truthy(item.text)
             THEN pushParts(items, i + 1, Append(parts, TextPart(item.text)))
             ELSE IF /\ item.type = "image_url"
                     /\ item.image_url.t = "object"
                     /\ ~Falsy(item.image_url.url)
             THEN LET parsed == parseDataUrl(item.image_url.url.s)
                  IN  IF parsed.match
                      THEN pushParts(items, i + 1,
                               Append(parts, InlineDataPart(parsed.mimeType, parsed.data)))
                      ELSE pushParts(items, i + 1, parts)
             ELSE pushParts(items, i + 1, parts)

buildVertexParts(content) ==
    IF content.t = "string" THEN Return(<<TextPart(content.text)>>)
    ELSE IF content.t = "array" THEN pushParts(content.items, 1, <<>>)
    ELSE Return(<<>>)

---------------------------------------------------------------------------
(* Specification of buildVertexParts alone *)

\* most items of a content array
MaxItems == 2

UrlSchemes == {<<"d", "a", "t", "a", ":">>, <<"h", "t", "t", "p", ":">>}
UrlMimes == {<<"i", "m", "a", "g", "e", "/", "p", "n", "g">>, <<"i", "m", "a", "g", "e", "/", "x",
               "-", "i", "c", "o", "n">>, <<>>}
UrlMarkers == {<<";", "b", "a", "s", "e", "6", "4", ",">>, <<",">>}
UrlPayloads == {<<"A", "A", "A">>, <<>>, <<"A", "\n", "B">>}

Urls == {s \o m \o k \o p : s \in UrlSchemes, m \in UrlMimes, k \in UrlMarkers,
                            p \in UrlPayloads}

Items ==
    {NullItem, Item(Missing, Missing, NoImageUrl), Item("audio", "hi", NoImageUrl)}
    \cup {Item("text", t, NoImageUrl) : t \in {Missing, "", "hi", "yo"}}
    \cup {Item("image_url", Missing, NoImageUrl),
          Item("image_url", Missing, ImageUrl(Undefined))}
    \cup {Item("image_url", Missing, ImageUrl(Str(u))) : u \in Urls \cup {<<>>}}

ContentInputs ==
    {StringContent("hello"), StringContent(""),
     OtherContent("undefined"), OtherContent("null"), OtherContent("number")}
    \cup {ArrayContent(items) : items \in SeqsUpTo(Items, MaxItems)}

InitParts ==
    /\ phase = "call"
    /\ arg \in ContentInputs
    /\ ret = Undefined
    /\ HandlerIdle

CallBuildVertexParts ==
    /\ phase = "call"
    /\ phase' = "ret"
    /\ ret' = buildVertexParts(arg)
    /\ UNCHANGED <<arg, hvars>>

NextParts == CallBuildVertexParts

SpecParts == InitParts /\ [][NextParts]_vars

---------------------------------------------------------------------------
(* C8 *)

\* url is data:<mimeType>;base64,<payload> with the mime type ending at
\* position e: read in the claim's favour, a mime type of the characters
\* the code accepts and a non-empty payload on one line
DataUrlSplits(url) ==
    {e \in 6..Len(url) :
        /\ Slice(url, 1, 5) = <<"d", "a", "t", "a", ":">>
        /\ \A i \in 6..e : MimeChar(url[i])
        /\ Slice(url, e + 1, e + 8) = <<";", "b", "a", "s", "e", "6", "4", ",">>
        /\ Len(url) > e + 8
        /\ \A i \in (e + 9)..Len(url) : url[i] \notin LineTerminators}

\* the parts the claim assigns to one element of a content array
ClaimedPartsOfItem(item) ==
    IF item.t = "object" /\ item.type = "text" /\ Truthy(item.text)
    THEN <<TextPart(item.text)>>
    ELSE IF /\ item.t = "object"
            /\ item.type = "image_url"
            /\ item.image_url.t = "object"
            /\ item.image_url.url.t = "string"
            /\ DataUrlSplits(item.image_url.url.s) # {}
    THEN LET url == item.image_url.url.s
             e == CHOOSE x \in DataUrlSplits(url) : TRUE
         IN  <<InlineDataPart(Slice(url, 6, e), Slice(url, e + 9, Len(url)))>>
    ELSE <<>>

RECURSIVE ClaimedParts(_)
ClaimedParts(items) ==
    IF items = <<>> THEN <<>>
    ELSE ClaimedPartsOfItem(Head(items)) \o ClaimedParts(Tail(items))

\* C8: on an array content buildVertexParts raises no error and returns,
\* in input order, one Text part per text item with non-empty text and one
\* InlineData part per image_url item with a data URL; every other
\* element, an absent one included, contributes nothing.
C8_TranslateContent ==
    (phase = "ret" /\ arg.t = "array") =>
        ret.ok /\ ret.value = ClaimedParts(arg.items)

---------------------------------------------------------------------------
(* buildVertexContentsFromMessages, index.js 70-85 *)

\* an element of messages: JSON null or an object
NullMessage == [t |-> "null", role |-> Missing, content |-> OtherContent("undefined")]
Message(role, content) == [t |-> "object", role |-> role, content |-> content]

\* the for loop of lines 72-83, from message i on, with the contents pushed
\* so far; an exception of buildVertexParts leaves the loop and the function
RECURSIVE pushContents(_, _, _)
pushContents(messages, i, contents) ==
    IF i > Len(messages) THEN Return(contents)
    ELSE LET msg == messages[i]
         IN  IF msg.t = "null" \/ ~Truthy(msg.role)
             THEN pushContents(messages, i + 1, contents)
             ELSE IF msg.role = "system"
             THEN pushContents(messages, i + 1, contents)
             ELSE LET role == IF msg.role = "assistant" THEN "model" ELSE "user"
                      parts == buildVertexParts(msg.content)
                  IN  IF ~parts.ok THEN parts
                      ELSE IF Len(parts.value) > 0
                      THEN pushContents(messages, i + 1,
                               Append(contents, [role |-> role, parts |-> parts.value]))
                      ELSE pushContents(messages, i + 1, contents)

buildVertexContentsFromMessages(messages) == pushContents(messages, 1, <<>>)

---------------------------------------------------------------------------
(* Specification of buildVertexContentsFromMessages alone *)

\* most messages of a request
MaxMessages == 2

PngUrl == <<"d", "a", "t", "a", ":", "i", "m", "a", "g", "e", "/", "p", "n", "g", ";", "b", "a",
            "s", "e", "6", "4", ",", "A", "A", "A">>

MessageContents ==
    {StringContent("draw a cat"), StringContent(""), OtherContent("undefined"),
     ArrayContent(<<>>),
     ArrayContent(<<Item("text", "hi", NoImageUrl)>>),
     ArrayContent(<<Item("image_url", Missing, ImageUrl(Str(<<"h", "t", "t", "p", ":", "/", "/",
        "x", "/", "a", ".", "p", "n", "g">>)))>>),
     ArrayContent(<<Item("text", "hi", NoImageUrl),
                    Item("image_url", Missing, ImageUrl(Str(PngUrl)))>>),
     ArrayContent(<<Item("text", "hi", NoImageUrl), NullItem>>)}

Roles == {Missing, "", "user", "assistant", "system", "tool"}

Messages == {NullMessage} \cup {Message(r, c) : r \in Roles, c \in MessageContents}

InitContents ==
    /\ phase = "call"
    /\ arg \in SeqsUpTo(Messages, MaxMessages)
    /\ ret = Undefined
    /\ HandlerIdle

CallBuildVertexContents ==
    /\ phase = "call"
    /\ phase' = "ret"
    /\ ret' = buildVertexContentsFromMessages(arg)
    /\ UNCHANGED <<arg, hvars>>

NextContents == CallBuildVertexContents

SpecContents == InitContents /\ [][NextContents]_vars

---------------------------------------------------------------------------
(* C7 *)

\* the translated parts list of a content, as the specification describes it
ClaimedTranslation(content) ==
    IF content.t = "string" THEN <<TextPart(content.text)>>
    ELSE IF content.t = "array" THEN ClaimedParts(content.items)
    ELSE <<>>

\* a message the claim retains: it has a role, the role is not system and
\* its translated parts list is not empty
Retained(msg) ==
    /\ msg.t = "object"
    /\ Truthy(msg.role)
    /\ msg.role # "system"
    /\ ClaimedTranslation(msg.content) # <<>>

RECURSIVE ClaimedContents(_)
ClaimedContents(messages) ==
    IF messages = <<>> THEN <<>>
    ELSE LET msg == Head(messages)
         IN  (IF Retained(msg)
              THEN <<[role |-> IF msg.role = "assistant" THEN "model" ELSE "user",
                      parts |-> ClaimedTranslation(msg.content)]>>
              ELSE <<>>) \o ClaimedContents(Tail(messages))

\* C7: for every message list the output of buildVertexContentsFromMessages
\* is, in order, one entry per message that has a role other than system
\* and a non-empty translated parts list, with role model for assistant
\* and user for any other role.
C7_BuildContents ==
    phase = "ret" => ret.ok /\ ret.value = ClaimedContents(arg)

---------------------------------------------------------------------------
(* JSON sent by the backend *)

\* an element of parts: JSON null or an object; inlineData is absent, null
\* or an object whose data is a string or is not there
NullPart == [t |-> "null", inlineData |-> [t |-> "undefined", data |-> Missing]]
TextOnlyPart == [t |-> "object", inlineData |-> [t |-> "undefined", data |-> Missing]]
NullInlinePart == [t |-> "object", inlineData |-> [t |-> "null", data |-> Missing]]
ImagePart(data) == [t |-> "object", inlineData |-> [t |-> "object", data |-> data]]

\* parts: absent or an array
NoParts == [t |-> "undefined", elems |-> <<>>]
PartsArray(elems) == [t |-> "array", elems |-> elems]

\* content: absent or an object
NoContent == [t |-> "undefined", parts |-> NoParts]
Content(parts) == [t |-> "object", parts |-> parts]

\* an element of candidates: JSON null or an object
NullCandidate == [t |-> "null", content |-> NoContent]
Candidate(content) == [t |-> "object", content |-> content]

\* candidates: absent, an array, or a non-empty string
NoCandidates == [t |-> "undefined", elems |-> <<>>]
CandidatesArray(elems) == [t |-> "array", elems |-> elems]
CandidatesString == [t |-> "string", elems |-> <<>>]

\* a JSON document: the literal null, or an object
NullDoc == [t |-> "null", candidates |-> NoCandidates]
Doc(candidates) == [t |-> "object", candidates |-> candidates]

---------------------------------------------------------------------------
(* callVertexApi after the read loop, index.js 152-174 *)

\* fullResponse is a sequence of atoms: a line feed, a blank, text that is
\* not JSON, or the text of one JSON document
NL == [c |-> "\n"]
SP == [c |-> " "]
Garbage == [c |-> "{oops"]
Json(doc) == [c |-> "json", doc |-> doc]

\* fullResponse.split('\n')
RECURSIVE split(_, _, _)
split(text, i, line) ==
    IF i > Len(text) THEN <<line>>
    ELSE IF text[i] = NL THEN <<line>> \o split(text, i + 1, <<>>)
    ELSE split(text, i + 1, Append(line, text[i]))

\* line.trim()
RECURSIVE trimStart(_)
trimStart(line) ==
    IF line # <<>> /\ Head(line) = SP THEN trimStart(Tail(line)) ELSE line

RECURSIVE trimEnd(_)
trimEnd(line) ==
    IF line # <<>> /\ line[Len(line)] = SP THEN trimEnd(Slice(line, 1, Len(line) - 1))
    ELSE line

trim(line) == trimEnd(trimStart(line))

\* .filter(line => line.trim())
RECURSIVE filterNonBlank(_)
filterNonBlank(lines) ==
    IF lines = <<>> THEN <<>>
    ELSE (IF trim(Head(lines)) # <<>> THEN <<Head(lines)>> ELSE <<>>)
         \o filterNonBlank(Tail(lines))

\* JSON.parse: one document, white space allowed around it
SyntaxErrorMessage == <<"U", "n", "e", "x", "p", "e", "c", "t", "e", "d", " ", "t", "o", "k", "e",
                        "n">>
JSONparse(line) ==
    LET t == trim(line)
    IN  IF Len(t) = 1 /\ t[1].c = "json" THEN Return(t[1].doc)
        ELSE Throw(SyntaxErrorMessage)

\* data.candidates && data.candidates[0]; on data null the property access
\* throws and the catch of line 166 swallows it
hasFirstCandidate(data) ==
    /\ data.t = "object"
    /\ \/ data.candidates.t = "string"
       \/ /\ data.candidates.t = "array"
          /\ Len(data.candidates.elems) >= 1
          /\ data.candidates.elems[1].t = "object"

NoResponseMessage == <<"N", "o", " ", "r", "e", "s", "p", "o", "n", "s", "e", " ", "f", "r", "o",
                       "m", " ", "V", "e", "r", "t", "e", "x">>
InvalidResponseMessage == <<"I", "n", "v", "a", "l", "i", "d", " ", "V", "e", "r", "t", "e", "x",
                            " ", "r", "e", "s", "p", "o", "n", "s", "e">>

\* a slip: the scan runs from the first chunk to the last
RECURSIVE scanForward(_, _)
scanForward(chunks, i) ==
    IF i > Len(chunks) THEN Throw(InvalidResponseMessage)
    ELSE LET parsed == JSONparse(chunks[i])
         IN  IF parsed.ok /\ hasFirstCandidate(parsed.value) THEN Return(parsed.value)
             ELSE scanForward(chunks, i + 1)

scanChunks_Forward(chunks, i) == scanForward(chunks, 1)

\* a slip: an unparseable line ends the scan
RECURSIVE scanChunks_StopOnError(_, _)
scanChunks_StopOnError(chunks, i) ==
    IF i < 1 THEN Throw(InvalidResponseMessage)
    ELSE LET parsed == JSONparse(chunks[i])
         IN  IF ~parsed.ok THEN Throw(InvalidResponseMessage)
             ELSE IF hasFirstCandidate(parsed.value) THEN Return(parsed.value)
             ELSE scanChunks_StopOnError(chunks, i - 1)

\* the for loop of lines 159-169 from chunk i down, then lines 171-174
RECURSIVE scanChunks(_, _)
scanChunks(chunks, i) ==
    IF i < 1 THEN Throw(InvalidResponseMessage)
    ELSE LET parsed == JSONparse(chunks[i])
         IN  IF parsed.ok /\ hasFirstCandidate(parsed.value) THEN Return(parsed.value)
             ELSE scanChunks(chunks, i - 1)

aggregate(text) ==
    LET chunks == filterNonBlank(split(text, 1, <<>>))
    IN  IF Len(chunks) = 0 THEN Throw(NoResponseMessage)
        ELSE scanChunks(chunks, Len(chunks))

---------------------------------------------------------------------------
(* Specification of the aggregation alone *)

\* most atoms of a backend body
MaxBody == 4

CandidateA == Candidate(Content(PartsArray(<<ImagePart("AAA")>>)))
CandidateB == Candidate(Content(PartsArray(<<TextOnlyPart, ImagePart("BBB")>>)))

StreamDocs ==
    {NullDoc, Doc(NoCandidates), Doc(CandidatesArray(<<>>)),
     Doc(CandidatesArray(<<NullCandidate>>)), Doc(CandidatesString),
     Doc(CandidatesArray(<<CandidateA>>)), Doc(CandidatesArray(<<CandidateB>>))}

StreamAtoms == {NL, SP, Garbage} \cup {Json(d) : d \in StreamDocs}

InitStream ==
    /\ phase = "call"
    /\ arg \in SeqsUpTo(StreamAtoms, MaxBody)
    /\ ret = Undefined
    /\ HandlerIdle

CallAggregate ==
    /\ phase = "call"
    /\ phase' = "ret"
    /\ ret' = aggregate(arg)
    /\ UNCHANGED <<arg, hvars>>

NextStream == CallAggregate

SpecStream == InitStream /\ [][NextStream]_vars

---------------------------------------------------------------------------
(* C5, C6 *)

\* positions a..b of text are one whole line holding a single JSON document
\* and otherwise blanks; the document sits at position at
IsDocLine(text, a, b, at) ==
    /\ 1 <= a /\ a <= at /\ at <= b /\ b <= Len(text)
    /\ a = 1 \/ text[a - 1] = NL
    /\ b = Len(text) \/ text[b + 1] = NL
    /\ text[at].c = "json"
    /\ \A i \in a..b : i # at => text[i] = SP

\* positions of the documents that stand alone on their line and satisfy P
DocLines(text, P(_)) ==
    {at \in 1..Len(text) :
        \E a \in 1..at, b \in at..Len(text) :
            IsDocLine(text, a, b, at) /\ P(text[at].doc)}

\* text has no non-blank line
AllBlank(text) == \A i \in 1..Len(text) : text[i] \in {NL, SP}

\* a JSON object with a non-empty candidates list
HasNonEmptyCandidatesList(doc) ==
    doc.t = "object" /\ doc.candidates.t = "array" /\ Len(doc.candidates.elems) >= 1

\* a JSON object whose candidates has a truthy element at index 0: a list
\* with a first element that is not null, or a non-empty string
HasUsableFirstCandidate(doc) ==
    /\ doc.t = "object"
    /\ doc.candidates.t \in {"array", "string"}
    /\ doc.candidates.t = "array" =>
          Len(doc.candidates.elems) >= 1 /\ doc.candidates.elems[1] # NullCandidate

Last(S) == CHOOSE x \in S : \A y \in S : y <= x

\* C5 as stated: when some line parses to a JSON object with a non-empty
\* candidates list, the result is the parse of the last such line.
C5_LastWithCandidatesList ==
    (phase = "ret" /\ DocLines(arg, HasNonEmptyCandidatesList) # {}) =>
        ret = Return(arg[Last(DocLines(arg, HasNonEmptyCandidatesList))].doc)

\* C5 amended: when some line parses to a JSON object whose candidates has
\* a truthy element at index 0, the result is the parse of the last such
\* line; no other line changes the selection.
C5_LastWithFirstCandidate ==
    (phase = "ret" /\ DocLines(arg, HasUsableFirstCandidate) # {}) =>
        ret = Return(arg[Last(DocLines(arg, HasUsableFirstCandidate))].doc)

\* two lines carry a candidate and the later one is returned
C5_Witness ==
    /\ phase = "ret"
    /\ Len(arg) = 4
    /\ arg[1] = Json(Doc(CandidatesArray(<<CandidateA>>)))
    /\ arg[2] = NL
    /\ arg[3] = Json(Doc(CandidatesArray(<<CandidateB>>)))
    /\ arg[4] = NL
    /\ ret = Return(Doc(CandidatesArray(<<CandidateB>>)))

\* C6 as stated: "No response from Vertex" exactly on a body without a
\* non-blank line, "Invalid Vertex response" exactly on a body with a
\* non-blank line but no line that parses to an object with a non-empty
\* candidates list, and a chunk in every other case.
C6_FailuresByCandidatesList ==
    phase = "ret" =>
        /\ (~ret.ok /\ ret.message = NoResponseMessage) <=> AllBlank(arg)
        /\ (~ret.ok /\ ret.message = InvalidResponseMessage) <=>
              (~AllBlank(arg) /\ DocLines(arg, HasNonEmptyCandidatesList) = {})
        /\ ret.ok <=> DocLines(arg, HasNonEmptyCandidatesList) # {}

\* C6 amended: the same with "a line that parses to an object whose
\* candidates has a truthy element at index 0".
C6_FailuresByFirstCandidate ==
    phase = "ret" =>
        /\ (~ret.ok /\ ret.message = NoResponseMessage) <=> AllBlank(arg)
        /\ (~ret.ok /\ ret.message = InvalidResponseMessage) <=>
              (~AllBlank(arg) /\ DocLines(arg, HasUsableFirstCandidate) = {})
        /\ ret.ok <=> DocLines(arg, HasUsableFirstCandidate) # {}

\* a body with non-blank lines of which none carries a candidate
C6_Witness ==
    /\ phase = "ret"
    /\ arg = <<Garbage, NL, Json(Doc(CandidatesArray(<<>>))), SP>>
    /\ ret = Throw(InvalidResponseMessage)

---------------------------------------------------------------------------
(* convertVertexToOpenai, index.js 183-191 *)

NullPartMessage == <<"C", "a", "n", "n", "o", "t", " ", "r", "e", "a", "d", " ", "p", "r", "o",
                     "p", "e", "r", "t", "i", "e", "s", " ", "o", "f", " ", "n", "u", "l", "l",
                     " ", "(", "r", "e", "a", "d", "i", "n", "g", " ", "'", "i", "n", "l", "i",
                     "n", "e", "D", "a", "t", "a", "'", ")">>

\* vertexResponse.candidates?.[0]?.content?.parts || []
partsOf(vertexResponse) ==
    LET candidates == vertexResponse.candidates
        first == IF candidates.t = "array" /\ Len(candidates.elems) >= 1
                 THEN candidates.elems[1]
                 ELSE NullCandidate
        parts == IF first.t = "object" /\ first.content.t = "object"
                 THEN first.content.parts
                 ELSE NoParts
    IN  IF parts.t = "undefined" THEN PartsArray(<<>>) ELSE parts

\* parts.find(part => part.inlineData) from part i on: the index found, 0
\* for undefined; reading inlineData of a null part throws
RECURSIVE find(_, _)
find(elems, i) ==
    IF i > Len(elems) THEN Return(0)
    ELSE IF elems[i].t = "null" THEN Throw(NullPartMessage)
    ELSE IF elems[i].inlineData.t = "object" THEN Return(i)
    ELSE find(elems, i + 1)

\* imagePart?.inlineData?.data || '' fills b64_json; created is
\* Math.floor(Date.now() / 1000)
convertVertexToOpenai(vertexResponse, now) ==
    LET parts == partsOf(vertexResponse)
        imagePart == find(parts.elems, 1)
    IN  IF ~imagePart.ok THEN imagePart
        ELSE LET data == IF imagePart.value = 0 THEN Missing
                         ELSE parts.elems[imagePart.value].inlineData.data
                 b64 == IF Truthy(data) THEN data ELSE ""
             IN  Return([created |-> now \div 1000, data |-> <<[b64_json |-> b64]>>])

---------------------------------------------------------------------------
(* Specification of convertVertexToOpenai alone *)

\* most parts of a candidate
MaxParts == 3

\* Date.now(), in milliseconds
Clock == {1999, 2000}

Parts ==
    {NullPart, TextOnlyPart, NullInlinePart,
     ImagePart(Missing), ImagePart(""), ImagePart("XYZ"), ImagePart("QRS")}

ConvertResponses ==
    {Doc(NoCandidates), Doc(CandidatesString), Doc(CandidatesArray(<<>>)),
     Doc(CandidatesArray(<<NullCandidate>>)),
     Doc(CandidatesArray(<<Candidate(NoContent)>>)),
     Doc(CandidatesArray(<<Candidate(Content(NoParts))>>))}
    \cup {Doc(CandidatesArray(<<Candidate(Content(PartsArray(ps)))>>)) :
            ps \in SeqsUpTo(Parts, MaxParts)}
    \cup {Doc(CandidatesArray(<<Candidate(Content(PartsArray(ps))), CandidateA>>)) :
            ps \in SeqsUpTo(Parts, 1)}

InitConvert ==
    /\ phase = "call"
    /\ arg \in [response : ConvertResponses, now : Clock]
    /\ ret = Undefined
    /\ HandlerIdle

CallConvert ==
    /\ phase = "call"
    /\ phase' = "ret"
    /\ ret' = convertVertexToOpenai(arg.response, arg.now)
    /\ UNCHANGED <<arg, hvars>>

NextConvert == CallConvert

SpecConvert == InitConvert /\ [][NextConvert]_vars

---------------------------------------------------------------------------
(* C9 *)

\* candidates[0].content.parts when every level is there, else no parts
ClaimedPartList(response) ==
    LET c == response.candidates
    IN  IF /\ c.t = "array"
           /\ Len(c.elems) >= 1
           /\ c.elems[1].t = "object"
           /\ c.elems[1].content.t = "object"
           /\ c.elems[1].content.parts.t = "array"
        THEN c.elems[1].content.parts.elems
        ELSE <<>>

CarriesInlineData(part) == part.t = "object" /\ part.inlineData.t = "object"

\* the data of the first part that carries inline data, "" without one
ClaimedB64(elems) ==
    LET S == {i \in 1..Len(elems) : CarriesInlineData(elems[i])}
    IN  IF S = {} THEN ""
        ELSE LET i == CHOOSE x \in S : \A y \in S : x <= y
                 data == elems[i].inlineData.data
             IN  IF data = Missing THEN "" ELSE data

\* C9: for every candidate response convertVertexToOpenai does not fail
\* and returns one data element whose b64_json is the data of the first
\* part of candidates[0].content.parts that carries inline data, and "" when
\* there is none or a level is missing.
C9_TranslateResponse ==
    phase = "ret" =>
        /\ ret.ok
        /\ Len(ret.value.data) = 1
        /\ ret.value.data[1].b64_json = ClaimedB64(ClaimedPartList(arg.response))

---------------------------------------------------------------------------
(* buildVertexRequest, index.js 117-126 *)

buildVertexRequest(openaiBody, size) ==
    LET contents == buildVertexContentsFromMessages(openaiBody.messages)
    IN  IF ~contents.ok THEN contents
        ELSE Return([contents |-> contents.value,
                     generationConfig |->
                         [responseModalities |-> <<"TEXT", "IMAGE">>,
                          imageConfig |-> [imageSize |-> size]]])

---------------------------------------------------------------------------
(* The request handler, index.js 212-229, with callVertexApi, 129-175 *)

\* The handler is an async function: it runs from one await to the next.
\* trace lists the calls it has made, and where an exception was thrown.
Called(op) == [op |-> op]
Fetched(body) == [op |-> "fetch", body |-> body]
Thrown(at) == [op |-> "throw", at |-> at]

\* `${response.status}`
RECURSIVE decimal(_)
decimal(n) ==
    IF n < 10 THEN <<Digits[n + 1]>>
    ELSE Append(decimal(n \div 10), Digits[(n % 10) + 1])

ModelRequiredPrefix == <<"m", "o", "d", "e", "l", " ", "i", "s", " ", "r", "e", "q", "u", "i", "r",
                         "e", "d">>
UnsupportedModelPrefix == <<"u", "n", "s", "u", "p", "p", "o", "r", "t", "e", "d", " ", "m", "o",
                            "d", "e", "l">>
VertexErrorPrefix == <<"V", "e", "r", "t", "e", "x", " ", "A", "P", "I", " ", "e", "r", "r", "o",
                       "r", ":", " ">>
UnknownErrorMessage == <<"U", "n", "k", "n", "o", "w", "n", " ", "e", "r", "r", "o", "r">>

\* a slip: the status is chosen by a search for the phrase in the message
catchResponse_Includes(message) ==
    [status |-> IF \/ includes(message, ModelRequiredPrefix)
                   \/ includes(message, UnsupportedModelPrefix)
                THEN 400 ELSE 500,
     body |-> [error |-> [message |-> message, type |-> "vertex_api_error"]]]

\* the catch block, lines 220-228: what res.status(status).json(...) sends
catchResponse(errorMessage) ==
    LET message == IF errorMessage # <<>> THEN errorMessage ELSE UnknownErrorMessage
    IN  [status |-> IF \/ startsWith(message, ModelRequiredPrefix)
                       \/ startsWith(message, UnsupportedModelPrefix)
                    THEN 400 ELSE 500,
         body |-> [error |-> [message |-> message, type |-> "vertex_api_error"]]]

\* res.json(openaiResponse), line 219
jsonResponse(openaiResponse) == [status |-> 200, body |-> openaiResponse]

\* a slip: the backend is called before the model is validated
firstSegment_FetchFirst(openaiBody) ==
    LET parsed == parseImageModel(openaiBody.model)
        built == buildVertexRequest(openaiBody, "2K")
    IN  IF ~built.ok
        THEN [calls |-> <<Called("buildVertexRequest"), Thrown("buildVertexRequest")>>,
              thrown |-> built]
        ELSE IF ~parsed.ok
        THEN [calls |-> <<Called("buildVertexRequest"), Fetched(built.value),
                          Called("parseImageModel"), Thrown("parseImageModel")>>,
              thrown |-> parsed]
        ELSE [calls |-> <<Called("buildVertexRequest"), Fetched(built.value),
                          Called("parseImageModel")>>,
              thrown |-> Return(0)]

\* lines 214-217 and 130-135, up to the await of fetch: the calls made and
\* the exception thrown, if any
firstSegment(openaiBody) ==
    LET parsed == parseImageModel(openaiBody.model)
    IN  IF ~parsed.ok
        THEN [calls |-> <<Called("parseImageModel"), Thrown("parseImageModel")>>,
              thrown |-> parsed]
        ELSE LET built == buildVertexRequest(openaiBody, parsed.value.size)
             IN  IF ~built.ok
                 THEN [calls |-> <<Called("parseImageModel"), Called("buildVertexRequest"),
                                   Thrown("buildVertexRequest")>>,
                       thrown |-> built]
                 ELSE [calls |-> <<Called("parseImageModel"), Called("buildVertexRequest"),
                                   Fetched(built.value)>>,
                       thrown |-> Return(0)]

\* a slip: an exception of the translation escapes the handler unanswered
lastSegment_Unanswered(text, now) ==
    LET vertexResponse == aggregate(text)
    IN  IF ~vertexResponse.ok
        THEN [calls |-> <<Thrown("callVertexApi")>>,
              sent |-> <<catchResponse(vertexResponse.message)>>]
        ELSE LET openaiResponse == convertVertexToOpenai(vertexResponse.value, now)
             IN  IF ~openaiResponse.ok
                 THEN [calls |-> <<Called("convertVertexToOpenai"),
                                   Thrown("convertVertexToOpenai")>>,
                       sent |-> <<>>]
                 ELSE [calls |-> <<Called("convertVertexToOpenai")>>,
                       sent |-> <<jsonResponse(openaiResponse.value)>>]

\* lines 148-174 and 218-228, once reader.read() reports done: the calls
\* made and the responses sent
lastSegment(text, now) ==
    LET vertexResponse == aggregate(text)
    IN  IF ~vertexResponse.ok
        THEN [calls |-> <<Thrown("callVertexApi")>>,
              sent |-> <<catchResponse(vertexResponse.message)>>]
        ELSE LET openaiResponse == convertVertexToOpenai(vertexResponse.value, now)
             IN  IF ~openaiResponse.ok
                 THEN [calls |-> <<Called("convertVertexToOpenai"),
                                   Thrown("convertVertexToOpenai")>>,
                       sent |-> <<catchResponse(openaiResponse.message)>>]
                 ELSE [calls |-> <<Called("convertVertexToOpenai")>>,
                       sent |-> <<jsonResponse(openaiResponse.value)>>]

---------------------------------------------------------------------------
(* Specification of one request *)

\* most chunks read from the backend body
MaxReads == 3

RequestModels ==
    {Undefined, Null, Str(<<>>), Str(BaseModel), Str(<<"g", "e", "m", "i", "n", "i", "-", "3", "-",
        "p", "r", "o", "-", "i", "m", "a", "g", "e", "-", "p", "r", "e", "v", "i", "e", "w", "-",
        "2", "k">>),
     Str(<<"G", "E", "M", "I", "N", "I", "-", "3", "-", "P", "R", "O", "-", "I", "M", "A", "G",
           "E", "-", "P", "R", "E", "V", "I", "E", "W", "-", "4", "K">>), Str(<<"g", "e", "m", "i",
           "n", "i", "-", "3", "-", "p", "r", "o", "-", "i", "m", "a", "g", "e", "-", "p", "r",
           "e", "v", "i", "e", "w", "-", "h", "d">>),
     Str(<<"g", "p", "t", "-", "i", "m", "a", "g", "e", "-", "1">>)}

RequestMessages ==
    { <<>>,
      <<Message("user", StringContent("draw a cat"))>>,
      <<Message("system", StringContent("be brief")),
        Message("user", ArrayContent(<<Item("text", "hi", NoImageUrl),
                                       Item("image_url", Missing, ImageUrl(Str(PngUrl)))>>))>>,
      <<Message("user", ArrayContent(<<NullItem>>))>> }

Requests == [model : RequestModels, messages : RequestMessages]

\* response.status values, and the bodies of error responses
Statuses == {200, 400, 503}
ErrorTexts == {<<>>, <<"q", "u", "o", "t", "a", " ", "e", "x", "c", "e", "e", "d", "e", "d">>,
                       <<"u", "n", "s", "u", "p", "p", "o", "r", "t", "e", "d", " ", "m", "o", "d",
                       "e", "l">>}

\* messages of the errors fetch and reader.read() reject with
TransportMessages == {<<"f", "e", "t", "c", "h", " ", "f", "a", "i", "l", "e", "d">>, <<"t", "e",
                        "r", "m", "i", "n", "a", "t", "e", "d">>, <<>>}

ReadAtoms ==
    {NL, Garbage,
     Json(Doc(NoCandidates)),
     Json(Doc(CandidatesArray(<<NullCandidate>>))),
     Json(Doc(CandidatesArray(<<CandidateA>>))),
     Json(Doc(CandidatesArray(<<Candidate(Content(PartsArray(<<NullPart>>)))>>)))}

Init ==
    /\ phase = "off"
    /\ arg = Undefined
    /\ ret = Undefined
    /\ pc = "start"
    /\ req \in Requests
    /\ status = 0
    /\ fullResponse = <<>>
    /\ responses = <<>>
    /\ trace = <<>>

\* the handler is entered and runs to the await of fetch, or to the catch
HandleRequest ==
    /\ pc = "start"
    /\ LET seg == firstSegment(req)
       IN  /\ trace' = trace \o seg.calls
           /\ IF seg.thrown.ok
              THEN pc' = "fetching" /\ UNCHANGED responses
              ELSE /\ pc' = "done"
                   /\ responses' = Append(responses, catchResponse(seg.thrown.message))
    /\ UNCHANGED <<status, fullResponse, req, pvars>>

\* fetch rejects: no response arrived
FetchRejects ==
    /\ pc = "fetching"
    /\ \E m \in TransportMessages :
          responses' = Append(responses, catchResponse(m))
    /\ trace' = Append(trace, Thrown("fetch"))
    /\ pc' = "done"
    /\ UNCHANGED <<status, fullResponse, req, pvars>>

\* fetch resolves; line 137 tests response.ok
FetchResolves ==
    /\ pc = "fetching"
    /\ \E st \in Statuses :
          /\ status' = st
          /\ pc' = IF st >= 200 /\ st <= 299 THEN "reading" ELSE "errorText"
    /\ UNCHANGED <<fullResponse, responses, trace, req, pvars>>

\* line 138-139: response.text() settles, with "" when it rejects
ErrorTextRead ==
    /\ pc = "errorText"
    /\ \E text \in ErrorTexts :
          responses' = Append(responses,
              catchResponse(VertexErrorPrefix \o decimal(status) \o <<" ">> \o text))
    /\ trace' = Append(trace, Thrown("callVertexApi"))
    /\ pc' = "done"
    /\ UNCHANGED <<status, fullResponse, req, pvars>>

\* lines 147-149: reader.read() delivers a chunk
ReadChunk ==
    /\ pc = "reading"
    /\ Len(fullResponse) < MaxReads
    /\ \E chunk \in ReadAtoms : fullResponse' = Append(fullResponse, chunk)
    /\ UNCHANGED <<pc, status, responses, trace, req, pvars>>

\* reader.read() rejects
ReadRejects ==
    /\ pc = "reading"
    /\ \E m \in TransportMessages :
          responses' = Append(responses, catchResponse(m))
    /\ trace' = Append(trace, Thrown("read"))
    /\ pc' = "done"
    /\ UNCHANGED <<status, fullResponse, req, pvars>>

\* reader.read() reports done: the rest of the handler runs
ReadDone ==
    /\ pc = "reading"
    /\ \E now \in Clock :
          LET seg == lastSegment(fullResponse, now)
          IN  /\ trace' = trace \o seg.calls
              /\ responses' = responses \o seg.sent
    /\ pc' = "done"
    /\ UNCHANGED <<status, fullResponse, req, pvars>>

Next ==
    \/ HandleRequest
    \/ FetchRejects
    \/ FetchResolves
    \/ ErrorTextRead
    \/ ReadChunk
    \/ ReadRejects
    \/ ReadDone

Spec == Init /\ [][Next]_vars

---------------------------------------------------------------------------
(* C1, C2, C4, C10 *)

\* {created, data: [{b64_json}]}
IsSuccessEnvelope(r) ==
    /\ DOMAIN r.body = {"created", "data"}
    /\ Len(r.body.data) = 1
    /\ DOMAIN r.body.data[1] = {"b64_json"}

\* {error: {message, type}}
IsErrorEnvelope(r) ==
    /\ DOMAIN r.body = {"error"}
    /\ DOMAIN r.body.error = {"message", "type"}

\* the model is missing, or does not start with the base name in any case
ModelInvalid(model) == Falsy(model) \/ ~PrefixMatchesBase(model.s)

ThrowSites == {trace[i].at : i \in {j \in 1..Len(trace) : trace[j].op = "throw"}}
FetchIndexes == {i \in 1..Len(trace) : trace[i].op = "fetch"}

\* C1: the handler has sent nothing while it awaits the backend and exactly
\* one response once it has finished, and that response is either the
\* success envelope or the error envelope.
C1_ExactlyOneResponse ==
    /\ Len(responses) = IF pc = "done" THEN 1 ELSE 0
    /\ \A i \in 1..Len(responses) :
          IsSuccessEnvelope(responses[i]) # IsErrorEnvelope(responses[i])

\* the translation of the selected chunk failed and was answered
C1_Witness ==
    /\ pc = "done"
    /\ "convertVertexToOpenai" \in ThrowSites
    /\ Len(responses) = 1
    /\ IsErrorEnvelope(responses[1])

\* C2: a failure is answered with the error envelope, with status 400 when
\* and only when the model failed validation and with status 500 for every
\* other failure; without a failure the answer is the success envelope.
C2_StatusByFailure ==
    pc = "done" =>
        /\ Len(responses) = 1
        /\ IF ThrowSites = {}
           THEN responses[1].status = 200 /\ IsSuccessEnvelope(responses[1])
           ELSE /\ IsErrorEnvelope(responses[1])
                /\ responses[1].status \in {400, 500}
                /\ responses[1].status = 400 <=> ModelInvalid(req.model)
                /\ responses[1].status = 400 <=> ThrowSites = {"parseImageModel"}

\* the backend's error text repeats the validation message
C2_Witness ==
    /\ pc = "done"
    /\ ThrowSites = {"callVertexApi"}
    /\ responses[1].status = 500
    /\ includes(responses[1].body.error.message, UnsupportedModelPrefix)

\* one of the three names of the README, in any letter case
IsListedModel(s) ==
    \E m \in {BaseModel, <<"g", "e", "m", "i", "n", "i", "-", "3", "-", "p", "r", "o", "-", "i",
                           "m", "a", "g", "e", "-", "p", "r", "e", "v", "i", "e", "w", "-", "2",
                           "k">>,
              <<"g", "e", "m", "i", "n", "i", "-", "3", "-", "p", "r", "o", "-", "i", "m", "a",
                "g", "e", "-", "p", "r", "e", "v", "i", "e", "w", "-", "4", "k">>} :
        Len(s) = Len(m) /\ \A i \in 1..Len(m) : SameLetter(s[i], m[i])

\* C4: a request whose model is none of gemini-3-pro-image-preview,
\* gemini-3-pro-image-preview-2k and gemini-3-pro-image-preview-4k never
\* reaches the backend and is answered with status 400 and a message that
\* starts with "unsupported model".
C4_OnlyListedModels ==
    (pc # "start" /\ ~Falsy(req.model) /\ ~IsListedModel(req.model.s)) =>
        /\ FetchIndexes = {}
        /\ pc = "done"
        /\ Len(responses) = 1
        /\ responses[1].status = 400
        /\ startsWith(responses[1].body.error.message, UnsupportedModelPrefix)

\* C10: the backend is called at most once, and only after parseImageModel
\* accepted the model and buildVertexRequest returned; a request with an
\* invalid model causes neither a translation nor a backend call, and no
\* call follows a failure.
C10_FetchOnceAfterValidation ==
    /\ Cardinality(FetchIndexes) <= 1
    /\ \A i \in FetchIndexes :
          /\ ~ModelInvalid(req.model)
          /\ \E j \in 1..i, k \in 1..i :
                /\ j < k /\ k < i
                /\ trace[j] = Called("parseImageModel")
                /\ trace[k] = Called("buildVertexRequest")
    /\ ModelInvalid(req.model) =>
          \A i \in 1..Len(trace) : trace[i].op \notin {"buildVertexRequest", "fetch"}
    /\ \A i \in 1..Len(trace), j \in 1..Len(trace) :
          (i < j /\ trace[i].op = "throw") => trace[j].op # "fetch"

\* the backend was called, the stream held no candidate, and nothing followed
C10_Witness ==
    /\ pc = "done"
    /\ Cardinality(FetchIndexes) = 1
    /\ trace[Len(trace)] = Thrown("callVertexApi")
    /\ responses[1].body.error.message = InvalidResponseMessage

===========================================================================
